---- MODULE Spec2Model ----
(***************************************************************************)
(* Two-body conversions between orbital elements (a, e) and the invariants *)
(* (epsilon, h), as coded in "Guia 1 - Ejercicio 7.py" (ellipses only) and *)
(* "Guia 1 - Ejercicio 8.py" (general conics, plot and interactive menu).  *)
(*                                                                         *)
(* Numbers.  The scripts compute with floats.  The model computes exactly: *)
(* a finite number is x + y*sqrt(q) with x, y, q rational, which is closed *)
(* under every operation the scripts apply (one square root per result),   *)
(* and the IEEE values inf, -inf and nan, which float() parses from the    *)
(* console, follow the IEEE rules.  Rounding is not modelled.              *)
(*                                                                         *)
(* Units.  Lengths are in units of 10^5 m and times in the unit that makes *)
(* the Earth's gravitational parameter 3.986e14 m^3/s^2 equal to 1, so     *)
(* that the quantities fit machine integers: 7000 km is 70 and the plot's  *)
(* clipping radius 1e8 m is 1000.  The conversions are homogeneous in the  *)
(* units, so the change of units does not change what they accept.         *)
(***************************************************************************)
EXTENDS Integers, Sequences, FiniteSets, TLC

VARIABLES ejercicio, entry, arg1, arg2, mu, fwd, inv, back, fig,
          pc, opcion, console, plots

vars == <<ejercicio, entry, arg1, arg2, mu, fwd, inv, back, fig,
          pc, opcion, console, plots>>

(***************************************************************************)
(* Bounds of the explored inputs.                                          *)
(***************************************************************************)
MaxNum == 3
MaxDen == 2
MaxMu == 2
MaxPlots == 1

(***************************************************************************)
(* Exact rationals <<n, d>>, d > 0, in lowest terms.                       *)
(***************************************************************************)
IAbs(n) == IF n < 0 THEN -n ELSE n

RECURSIVE GCD(_, _)
GCD(m, n) == IF n = 0 THEN m ELSE GCD(n, m % n)

RNorm(n, d) ==
    LET s == IF d < 0 THEN -1 ELSE 1
        g == GCD(IAbs(n), IAbs(d))
    IN  <<(s * n) \div g, (s * d) \div g>>

RZero == <<0, 1>>
ROne == <<1, 1>>

RNeg(r) == <<-r[1], r[2]>>

RAdd(r, s) ==
    LET g == GCD(r[2], s[2])
    IN  RNorm(r[1] * (s[2] \div g) + s[1] * (r[2] \div g), (r[2] \div g) * s[2])

RMul(r, s) ==
    IF r[1] = 0 \/ s[1] = 0 THEN RZero
    ELSE LET g1 == GCD(IAbs(r[1]), s[2])
             g2 == GCD(IAbs(s[1]), r[2])
         IN  <<(r[1] \div g1) * (s[1] \div g2), (r[2] \div g2) * (s[2] \div g1)>>

RInv(r) == IF r[1] > 0 THEN <<r[2], r[1]>> ELSE <<-r[2], -r[1]>>

RSgn(r) == IF r[1] > 0 THEN 1 ELSE IF r[1] < 0 THEN -1 ELSE 0

(***************************************************************************)
(* Float values: finite x + y*sqrt(q), or inf (sign in x), or nan.         *)
(***************************************************************************)
Fin(x, y, q) ==
    IF y = RZero \/ q = RZero
    THEN [k |-> "fin", x |-> x, y |-> RZero, q |-> RZero]
    ELSE [k |-> "fin", x |-> x, y |-> y, q |-> q]

Rat(n, d) == Fin(RNorm(n, d), RZero, RZero)

NaN == [k |-> "nan", x |-> RZero, y |-> RZero, q |-> RZero]

Inf(s) == [k |-> "inf", x |-> <<s, 1>>, y |-> RZero, q |-> RZero]

Zero == Rat(0, 1)
One == Rat(1, 1)
Two == Rat(2, 1)

\* The sign of a value that is not nan: of x + y*sqrt(q) by comparing squares.
Sgn(v) ==
    IF v.k = "inf" THEN v.x[1]
    ELSE LET sx == RSgn(v.x)
             sy == RSgn(v.y)
         IN  IF sy = 0 THEN sx
             ELSE IF sx = 0 THEN sy
             ELSE IF sx = sy THEN sx
             ELSE sx * RSgn(RAdd(RMul(v.x, v.x), RNeg(RMul(RMul(v.y, v.y), v.q))))

IsZero(v) == v.k = "fin" /\ Sgn(v) = 0

Neg(v) ==
    IF v.k = "nan" THEN NaN
    ELSE IF v.k = "inf" THEN Inf(-v.x[1])
    ELSE Fin(RNeg(v.x), RNeg(v.y), v.q)

Add(v, w) ==
    IF v.k = "nan" \/ w.k = "nan" THEN NaN
    ELSE IF v.k = "inf" THEN (IF w.k = "inf" /\ w.x # v.x THEN NaN ELSE v)
    ELSE IF w.k = "inf" THEN w
    ELSE Fin(RAdd(v.x, w.x), RAdd(v.y, w.y), IF v.y # RZero THEN v.q ELSE w.q)

Sub(v, w) == Add(v, Neg(w))

Mul(v, w) ==
    IF v.k = "nan" \/ w.k = "nan" THEN NaN
    ELSE IF v.k = "inf" \/ w.k = "inf"
         THEN (IF Sgn(v) * Sgn(w) = 0 THEN NaN ELSE Inf(Sgn(v) * Sgn(w)))
    ELSE LET q == IF v.y # RZero THEN v.q ELSE w.q
         IN  Fin(RAdd(RMul(v.x, w.x), RMul(RMul(v.y, w.y), q)),
                 RAdd(RMul(v.x, w.y), RMul(v.y, w.x)), q)

\* x ** 2
Pow2(v) == Mul(v, v)

\* v / w for a rational or special divisor w.  A zero divisor gives the IEEE
\* result (numpy); the Python float division that raises instead is guarded
\* where it is used.
Div(v, w) ==
    IF v.k = "nan" \/ w.k = "nan" THEN NaN
    ELSE IF v.k = "inf"
         THEN (IF w.k = "inf" THEN NaN ELSE Inf(Sgn(v) * (IF Sgn(w) < 0 THEN -1 ELSE 1)))
    ELSE IF w.k = "inf" THEN Zero
    ELSE IF IsZero(w) THEN (IF IsZero(v) THEN NaN ELSE Inf(Sgn(v)))
    ELSE Mul(v, Fin(RInv(w.x), RZero, RZero))

\* np.sqrt of a rational or special value: nan (and a warning) below zero.
Sqrt(v) ==
    IF v.k = "nan" THEN NaN
    ELSE IF v.k = "inf" THEN (IF Sgn(v) > 0 THEN v ELSE NaN)
    ELSE IF Sgn(v) < 0 THEN NaN
    ELSE IF Sgn(v) = 0 THEN Zero
    ELSE Fin(RZero, ROne, v.x)

\* abs(x)
AbsV(v) == IF v.k = "nan" THEN NaN ELSE IF Sgn(v) < 0 THEN Neg(v) ELSE v

\* Comparisons: every comparison with nan is false.
Lt(v, w) == LET d == Sub(v, w) IN d.k # "nan" /\ Sgn(d) < 0

Eq(v, w) ==
    /\ v.k # "nan"
    /\ w.k # "nan"
    /\ IF v.k = "inf" \/ w.k = "inf" THEN v = w ELSE Sgn(Sub(v, w)) = 0

Le(v, w) == Lt(v, w) \/ Eq(v, w)
Gt(v, w) == Lt(w, v)
Ge(v, w) == Le(w, v)

(***************************************************************************)
(* What a call does: returns a pair, or raises.                            *)
(***************************************************************************)
Pending == [exc |-> "pending", msg |-> "", fst |-> NaN, snd |-> NaN]

Return(x, y) == [exc |-> "none", msg |-> "", fst |-> x, snd |-> y]

Raise(type, text) == [exc |-> type, msg |-> text, fst |-> NaN, snd |-> NaN]

(***************************************************************************)
(* Ejercicio 7: ellipses only.                                             *)
(***************************************************************************)
\* A faulty ae2Eh: e = 1 passes the range check.
ae2Eh7_AcceptsParabola(a, e, m) ==
    IF Le(a, Zero) THEN Raise("ValueError", "semi-eje")
    ELSE IF ~(Le(Zero, e) /\ Le(e, One)) THEN Raise("ValueError", "excentricidad")
    ELSE Return(Div(Neg(m), Mul(Two, a)),
                Sqrt(Mul(Mul(m, a), Sub(One, Pow2(e)))))

\* A faulty ae2Eh: the energy has the wrong sign.
ae2Eh7_EnergySign(a, e, m) ==
    IF Le(a, Zero) THEN Raise("ValueError", "semi-eje")
    ELSE IF ~(Le(Zero, e) /\ Lt(e, One)) THEN Raise("ValueError", "excentricidad")
    ELSE Return(Div(m, Mul(Two, a)),
                Sqrt(Mul(Mul(m, a), Sub(One, Pow2(e)))))

\* The divisor 2*a is not zero here: a <= 0 has been rejected.
ae2Eh7(a, e, m) ==
    IF Le(a, Zero) THEN Raise("ValueError", "semi-eje")
    ELSE IF ~(Le(Zero, e) /\ Lt(e, One)) THEN Raise("ValueError", "excentricidad")
    ELSE LET epsilon == Div(Neg(m), Mul(Two, a))
             h == Sqrt(Mul(Mul(m, a), Sub(One, Pow2(e))))
         IN  Return(epsilon, h)

\* A faulty Eh2ae: h <= 0 is not rejected.
Eh2ae7_NoMomentumCheck(epsilon, h, m) ==
    IF Ge(epsilon, Zero) THEN Raise("ValueError", "energia")
    ELSE LET a == Div(Neg(m), Mul(Two, epsilon))
             e2 == Sub(One, Div(Pow2(h), Mul(m, a)))
         IN  IF Lt(e2, Zero) THEN Raise("ValueError", "no eliptica")
             ELSE Return(a, Sqrt(e2))

\* The divisors 2*epsilon and mu*a are not zero for a finite epsilon < 0 and
\* mu > 0, the inputs this function is explored on.
Eh2ae7(epsilon, h, m) ==
    IF Ge(epsilon, Zero) THEN Raise("ValueError", "energia")
    ELSE IF Le(h, Zero) THEN Raise("ValueError", "momento")
    ELSE LET a == Div(Neg(m), Mul(Two, epsilon))
             e2 == Sub(One, Div(Pow2(h), Mul(m, a)))
         IN  IF Lt(e2, Zero) THEN Raise("ValueError", "no eliptica")
             ELSE Return(a, Sqrt(e2))

(***************************************************************************)
(* Ejercicio 8: general conics.                                            *)
(***************************************************************************)
\* A faulty ae2Eh: the parabola is rejected.
ae2Eh8_RejectsParabola(a, e, m) ==
    IF Lt(e, Zero) THEN Raise("ValueError", "excentricidad")
    ELSE IF Eq(e, One) THEN Raise("ValueError", "parabolica")
    ELSE IF (Lt(e, One) /\ Le(a, Zero)) \/ (Gt(e, One) /\ Ge(a, Zero))
         THEN Raise("ValueError", "combinacion")
    ELSE IF IsZero(Mul(Two, a)) THEN Raise("ZeroDivisionError", "float division by zero")
    ELSE Return(Div(Neg(m), Mul(Two, a)),
                Sqrt(Mul(Mul(m, AbsV(a)), AbsV(Sub(One, Pow2(e))))))

\* A faulty ae2Eh: a hyperbola is asked for a > 0.
ae2Eh8_HyperbolaSign(a, e, m) ==
    IF Lt(e, Zero) THEN Raise("ValueError", "excentricidad")
    ELSE IF Eq(e, One) THEN Return(Zero, Sqrt(Mul(m, a)))
    ELSE IF (Lt(e, One) /\ Le(a, Zero)) \/ (Gt(e, One) /\ Le(a, Zero))
         THEN Raise("ValueError", "combinacion")
    ELSE IF IsZero(Mul(Two, a)) THEN Raise("ZeroDivisionError", "float division by zero")
    ELSE Return(Div(Neg(m), Mul(Two, a)),
                Sqrt(Mul(Mul(m, AbsV(a)), AbsV(Sub(One, Pow2(e))))))

\* Line 17 divides Python floats: a zero divisor (a = 0 passes the checks when
\* e is nan) raises ZeroDivisionError.
ae2Eh8(a, e, m) ==
    IF Lt(e, Zero) THEN Raise("ValueError", "excentricidad")
    ELSE IF Eq(e, One) THEN
        LET h == Sqrt(Mul(m, a))
            epsilon == Zero
        IN  Return(epsilon, h)
    ELSE IF (Lt(e, One) /\ Le(a, Zero)) \/ (Gt(e, One) /\ Ge(a, Zero))
         THEN Raise("ValueError", "combinacion")
    ELSE IF IsZero(Mul(Two, a)) THEN Raise("ZeroDivisionError", "float division by zero")
    ELSE LET epsilon == Div(Neg(m), Mul(Two, a))
             h == Sqrt(Mul(Mul(m, AbsV(a)), AbsV(Sub(One, Pow2(e)))))
         IN  Return(epsilon, h)

\* A faulty Eh2ae: a = mu/(2*epsilon).
Eh2ae8_EnergySign(epsilon, h, m) ==
    IF Le(h, Zero) THEN Raise("ValueError", "momento")
    ELSE IF Eq(epsilon, Zero) THEN Return(Div(Pow2(h), m), One)
    ELSE LET a == Div(m, Mul(Two, epsilon))
         IN  IF IsZero(Mul(m, a)) THEN Raise("ZeroDivisionError", "float division by zero")
             ELSE LET e2 == Sub(One, Div(Pow2(h), Mul(m, a)))
                  IN  IF Lt(e2, Zero) THEN Raise("ValueError", "no valida")
                      ELSE Return(a, Sqrt(e2))

\* A faulty Eh2ae: e^2 = 1 + h^2/(mu*a).
Eh2ae8_DiscriminantSign(epsilon, h, m) ==
    IF Le(h, Zero) THEN Raise("ValueError", "momento")
    ELSE IF Eq(epsilon, Zero) THEN Return(Div(Pow2(h), m), One)
    ELSE LET a == Div(Neg(m), Mul(Two, epsilon))
         IN  IF IsZero(Mul(m, a)) THEN Raise("ZeroDivisionError", "float division by zero")
             ELSE LET e2 == Add(One, Div(Pow2(h), Mul(m, a)))
                  IN  IF Lt(e2, Zero) THEN Raise("ValueError", "no valida")
                      ELSE Return(a, Sqrt(e2))

\* Line 37 divides Python floats when the menu calls it: mu*a is zero when
\* epsilon is inf or -inf, and the division raises ZeroDivisionError.
Eh2ae8(epsilon, h, m) ==
    IF Le(h, Zero) THEN Raise("ValueError", "momento")
    ELSE IF Eq(epsilon, Zero) THEN
        LET p == Div(Pow2(h), m)
        IN  Return(p, One)
    ELSE LET a == IF Gt(epsilon, Zero)
                  THEN Div(Neg(m), Mul(Two, epsilon))
                  ELSE Div(Neg(m), Mul(Two, epsilon))
         IN  IF IsZero(Mul(m, a)) THEN Raise("ZeroDivisionError", "float division by zero")
             ELSE LET e2 == Sub(One, Div(Pow2(h), Mul(m, a)))
                  IN  IF Lt(e2, Zero) THEN Raise("ValueError", "no valida")
                      ELSE Return(a, Sqrt(e2))

(***************************************************************************)
(* plot_orbit of Ejercicio 8.  A radius is kept as the exact quotient      *)
(* num/den = p / (1 + e*cos(theta)); a masked sample is nan.               *)
(***************************************************************************)
Quot(n, d) == [num |-> n, den |-> d]

QNaN == Quot(NaN, One)

QIsNaN(r) ==
    \/ r.num.k = "nan"
    \/ r.den.k = "nan"
    \/ (r.num.k = "inf" /\ r.den.k = "inf")
    \/ (IsZero(r.num) /\ IsZero(r.den))

\* The sign of a quotient that is not nan (a zero divisor counts as +0).
QSgn(r) ==
    IF r.den.k = "inf" THEN 0
    ELSE Sgn(r.num) * (IF Sgn(r.den) < 0 THEN -1 ELSE 1)

\* r > lim, for a finite lim > 0
QGt(r, lim) ==
    /\ ~QIsNaN(r)
    /\ IF r.num.k = "inf" \/ IsZero(r.den) THEN QSgn(r) > 0
       ELSE IF r.den.k = "inf" THEN FALSE
       ELSE LET d == Sgn(Sub(r.num, Mul(lim, r.den)))
            IN  IF Sgn(r.den) > 0 THEN d > 0 ELSE d < 0

QNegative(r) == ~QIsNaN(r) /\ QSgn(r) < 0

\* MU = 3.986e14 m^3/s^2, which is 1 in the model's units.
MU == Rat(1, 1)

\* 1e8 m, the radius beyond which a sample is masked, in units of 10^5 m.
RMax == Rat(1000, 1)

\* cos(theta) at samples 0, 100, 200, 299, 300, 400, 500 and 599 of
\* np.linspace(-pi + 0.01, pi - 0.01, 600), to three decimals (towards zero).
CosTheta ==
    << Rat(-999, 1000), Rat(-492, 1000), Rat(505, 1000), Rat(999, 1000),
       Rat(999, 1000), Rat(496, 1000), Rat(-501, 1000), Rat(-999, 1000) >>

\* r[r > 1e8] = np.nan
Mask(r) == [i \in DOMAIN r |-> IF QGt(r[i], RMax) THEN QNaN ELSE r[i]]

NoFig == [exc |-> "pending", msg |-> "", tipo |-> "",
          epsilon |-> NaN, h |-> NaN, r |-> <<>>]

\* The figure plot_orbit shows, or the error ae2Eh raised in it.  The plotted
\* x and y are r*cos(theta)/1e3 and r*sin(theta)/1e3: nan where r is nan.
plot_orbit8(a, e, m) ==
    LET res == ae2Eh8(a, e, m)
    IN  IF res.exc # "none"
        THEN [exc |-> res.exc, msg |-> res.msg, tipo |-> "",
              epsilon |-> NaN, h |-> NaN, r |-> <<>>]
        ELSE LET epsilon == res.fst
                 h == res.snd
                 p == IF Eq(e, One) THEN Div(Pow2(h), m)
                      ELSE Mul(a, Sub(One, Pow2(e)))
                 r == [i \in DOMAIN CosTheta |->
                         IF Eq(e, One) THEN Quot(p, Add(One, CosTheta[i]))
                         ELSE Quot(p, Add(One, Mul(e, CosTheta[i])))]
                 tipo == IF Eq(e, One) THEN "Parabolica"
                         ELSE IF Lt(e, One) THEN "Eliptica" ELSE "Hiperbolica"
             IN  [exc |-> "none", msg |-> "", tipo |-> tipo,
                  epsilon |-> epsilon, h |-> h, r |-> Mask(r)]

(***************************************************************************)
(* The functions applied to inputs drawn from bounded sets.  entry "ae"    *)
(* starts from elements (a, e) = (arg1, arg2), entry "Eh" from invariants  *)
(* (epsilon, h) = (arg1, arg2).                                            *)
(***************************************************************************)
\* The demo orbit of Ejercicio 7: a = 15000 km, e = 0.6.
a_demo == Rat(150, 1)
e_demo == Rat(3, 5)

Nums == {Rat(n, d) : n \in -MaxNum..MaxNum, d \in 1..MaxDen}
Lengths == Nums \cup {a_demo, Neg(a_demo)}
Eccentricities == Nums \cup {e_demo}
Mus == {Rat(n, 1) : n \in 1..MaxMu}

ae2Eh(ej, a, e, m) == IF ej = 7 THEN ae2Eh7(a, e, m) ELSE ae2Eh8(a, e, m)
Eh2ae(ej, epsilon, h, m) == IF ej = 7 THEN Eh2ae7(epsilon, h, m) ELSE Eh2ae8(epsilon, h, m)

InitFn ==
    /\ ejercicio \in {7, 8}
    /\ entry \in {"ae", "Eh"}
    /\ arg1 \in (IF entry = "ae" THEN Lengths ELSE Nums)
    /\ arg2 \in (IF entry = "ae" THEN Eccentricities ELSE Nums)
    /\ mu \in Mus
    /\ fwd = Pending
    /\ inv = Pending
    /\ back = Pending
    /\ fig = NoFig
    /\ pc = "call"
    /\ opcion = ""
    /\ console = ""
    /\ plots = 0

\* epsilon, h = ae2Eh(a, e, mu)
Call_ae2Eh ==
    /\ pc = "call" /\ entry = "ae" /\ fwd = Pending
    /\ fwd' = ae2Eh(ejercicio, arg1, arg2, mu)
    /\ UNCHANGED <<ejercicio, entry, arg1, arg2, mu, inv, back, fig,
                   pc, opcion, console, plots>>

\* a_rec, e_rec = Eh2ae(epsilon, h, mu) on what ae2Eh returned
Call_Eh2ae_back ==
    /\ pc = "call" /\ entry = "ae" /\ fwd.exc = "none" /\ back = Pending
    /\ back' = Eh2ae(ejercicio, fwd.fst, fwd.snd, mu)
    /\ UNCHANGED <<ejercicio, entry, arg1, arg2, mu, fwd, inv, fig,
                   pc, opcion, console, plots>>

\* a, e = Eh2ae(epsilon, h, mu)
Call_Eh2ae ==
    /\ pc = "call" /\ entry = "Eh" /\ inv = Pending
    /\ inv' = Eh2ae(ejercicio, arg1, arg2, mu)
    /\ UNCHANGED <<ejercicio, entry, arg1, arg2, mu, fwd, back, fig,
                   pc, opcion, console, plots>>

\* plot_orbit(a, e, mu) on elements
Call_plot_orbit ==
    /\ pc = "call" /\ ejercicio = 8 /\ entry = "ae" /\ fig = NoFig
    /\ fig' = plot_orbit8(arg1, arg2, mu)
    /\ UNCHANGED <<ejercicio, entry, arg1, arg2, mu, fwd, inv, back,
                   pc, opcion, console, plots>>

\* plot_orbit(a, e, mu) on the elements Eh2ae returned
Call_plot_orbit_recovered ==
    /\ pc = "call" /\ ejercicio = 8 /\ entry = "Eh" /\ inv.exc = "none" /\ fig = NoFig
    /\ fig' = plot_orbit8(inv.fst, inv.snd, mu)
    /\ UNCHANGED <<ejercicio, entry, arg1, arg2, mu, fwd, inv, back,
                   pc, opcion, console, plots>>

NextFn ==
    \/ Call_ae2Eh
    \/ Call_Eh2ae_back
    \/ Call_Eh2ae
    \/ Call_plot_orbit
    \/ Call_plot_orbit_recovered

SpecFn == InitFn /\ [][NextFn]_vars

(***************************************************************************)
(* The interactive menu of Ejercicio 8.  Each action is one turn of the    *)
(* loop: the option read, the numbers read, the calls and what is printed. *)
(* A typed number is the float that float() returns, or a text float()     *)
(* rejects with ValueError.  arg1 and arg2 keep the numbers of the last     *)
(* request that was not rejected: those behind the figure or the traceback.*)
(***************************************************************************)
MaxTyped == 3

NotANumber == [k |-> "text", x |-> RZero, y |-> RZero, q |-> RZero]

Typed ==
    {Rat(n, 2) : n \in -MaxTyped..MaxTyped}
        \cup {Inf(1), Inf(-1), NaN, NotANumber}

InitMenu ==
    /\ ejercicio = 8
    /\ entry = "menu"
    /\ arg1 = NaN
    /\ arg2 = NaN
    /\ mu = MU
    /\ fwd = Pending
    /\ inv = Pending
    /\ back = Pending
    /\ fig = NoFig
    /\ pc = "prompt"
    /\ opcion = ""
    /\ console = ""
    /\ plots = 0

\* How a turn of option 1 or 2 ends, given what the try block did (f: the
\* figure shown, or the error raised): the figure is shown, or the
\* ValueError is caught and printed, or any other error leaves the loop and
\* ends the program with a traceback.
EndTurn(x1, x2, f) ==
    /\ fig' = (IF f.exc = "none" THEN f ELSE fig)
    /\ plots' = (IF f.exc = "none" THEN plots + 1 ELSE plots)
    /\ arg1' = (IF f.exc = "ValueError" THEN arg1 ELSE x1)
    /\ arg2' = (IF f.exc = "ValueError" THEN arg2 ELSE x2)
    /\ pc' = (IF f.exc \in {"none", "ValueError"} THEN "prompt" ELSE "crashed")
    /\ console' = (IF f.exc = "none" THEN ""
                   ELSE IF f.exc = "ValueError" THEN "Error" ELSE "Traceback")

Failed(res) == [NoFig EXCEPT !.exc = res.exc, !.msg = res.msg]

\* a = float(input()); e = float(input()); plot_orbit(a, e, MU)
Try1(x1, x2) ==
    IF x1 = NotANumber \/ x2 = NotANumber
    THEN Failed(Raise("ValueError", "could not convert"))
    ELSE plot_orbit8(x1, x2, mu)

\* epsilon = float(input()); h = float(input()); a, e = Eh2ae(epsilon, h, MU)
Read2(x1, x2) ==
    IF x1 = NotANumber \/ x2 = NotANumber
    THEN Raise("ValueError", "could not convert")
    ELSE Eh2ae8(x1, x2, mu)

\* plot_orbit(a, e, MU) on what Eh2ae returned
Try2(res) ==
    IF res.exc = "none" THEN plot_orbit8(res.fst, res.snd, mu) ELSE Failed(res)

\* opcion == "1"
Opcion1(x1, x2) ==
    /\ pc = "prompt" /\ plots < MaxPlots
    /\ opcion' = "1"
    /\ EndTurn(x1, x2, Try1(x1, x2))
    /\ UNCHANGED <<ejercicio, entry, mu, fwd, inv, back>>

\* opcion == "2"
Opcion2(x1, x2) ==
    /\ pc = "prompt" /\ plots < MaxPlots
    /\ opcion' = "2"
    /\ inv' = Read2(x1, x2)
    /\ EndTurn(x1, x2, Try2(inv'))
    /\ UNCHANGED <<ejercicio, entry, mu, fwd, back>>

\* opcion == "3": the farewell is printed and the loop is left
Opcion3 ==
    /\ pc = "prompt"
    /\ opcion' = "3"
    /\ console' = "Gracias"
    /\ pc' = "exited"
    /\ UNCHANGED <<ejercicio, entry, arg1, arg2, mu, fwd, inv, back, fig, plots>>

\* any other text
OpcionInvalida ==
    /\ pc = "prompt"
    /\ opcion' = "otra"
    /\ console' = "Opcion invalida"
    /\ pc' = "prompt"
    /\ UNCHANGED <<ejercicio, entry, arg1, arg2, mu, fwd, inv, back, fig, plots>>

NextMenu ==
    \/ \E x1 \in Typed, x2 \in Typed : Opcion1(x1, x2)
    \/ \E x1 \in Typed, x2 \in Typed : Opcion2(x1, x2)
    \/ Opcion3
    \/ OpcionInvalida

SpecMenu == InitMenu /\ [][NextMenu]_vars

(***************************************************************************)
(* Properties.  In SpecFn the inputs are finite reals and mu > 0; with     *)
(* entry "ae", (arg1, arg2) is (a, e); with entry "Eh" it is (epsilon, h). *)
(***************************************************************************)
InEllipseDomain == Gt(arg1, Zero) /\ Le(Zero, arg2) /\ Lt(arg2, One)

\* C1: Ejercicio 7's ae2Eh raises the invalid-orbit error exactly when a <= 0
\* or e is outside [0, 1); on a > 0 and 0 <= e < 1 it returns a pair.
C1_StrictForwardDomain ==
    (ejercicio = 7 /\ entry = "ae" /\ fwd # Pending) =>
        LET rejected == Le(arg1, Zero) \/ Lt(arg2, Zero) \/ Ge(arg2, One)
        IN  /\ (fwd.exc = "ValueError") <=> rejected
            /\ InEllipseDomain => fwd.exc = "none"

C1_Witness ==
    /\ ejercicio = 7 /\ entry = "ae"
    /\ Gt(arg1, Zero) /\ Eq(arg2, One)
    /\ fwd.exc = "ValueError"

\* C2: on the ellipse domain, Eh2ae applied to what ae2Eh returned does not
\* raise and gives back (a, e), in Ejercicio 7 and in Ejercicio 8.
C2_EllipseRoundTrip ==
    (entry = "ae" /\ InEllipseDomain /\ fwd # Pending) =>
        /\ fwd.exc = "none"
        /\ back # Pending =>
              /\ back.exc = "none"
              /\ Eq(back.fst, arg1)
              /\ Eq(back.snd, arg2)

C2_Witness ==
    /\ ejercicio = 7 /\ entry = "ae"
    /\ arg1 = a_demo /\ arg2 = e_demo
    /\ back.exc = "none"

\* C3: on a > 0, 0 <= e < 1, mu > 0, Ejercicio 7's ae2Eh returns epsilon < 0
\* and h > 0, with 2*a*epsilon = -mu and h^2 + mu*a*e^2 = mu*a.
C3_BoundOrbitInvariants ==
    (ejercicio = 7 /\ entry = "ae" /\ InEllipseDomain /\ fwd # Pending) =>
        /\ fwd.exc = "none"
        /\ Lt(fwd.fst, Zero)
        /\ Gt(fwd.snd, Zero)
        /\ Eq(Mul(Mul(Two, arg1), fwd.fst), Neg(mu))
        /\ Eq(Add(Pow2(fwd.snd), Mul(Mul(mu, arg1), Pow2(arg2))), Mul(mu, arg1))

C3_Witness ==
    /\ ejercicio = 7 /\ entry = "ae"
    /\ Gt(arg1, Zero) /\ Eq(arg2, Zero)
    /\ fwd.exc = "none"
    /\ Eq(Pow2(fwd.snd), Mul(mu, arg1))

\* C4: Ejercicio 7's Eh2ae raises the invalid-orbit error when epsilon >= 0,
\* when h <= 0 and when e^2 = 1 - h^2/(mu*a), a = -mu/(2*epsilon), is negative
\* (that is, mu^2 + 2*epsilon*h^2 < 0); otherwise it returns a pair.  No
\* input with h <= 0 gives a result.
C4_StrictInverseDomain ==
    (ejercicio = 7 /\ entry = "Eh" /\ inv # Pending) =>
        LET negative == Lt(Add(Pow2(mu), Mul(Mul(Two, arg1), Pow2(arg2))), Zero)
            rejected == Ge(arg1, Zero) \/ Le(arg2, Zero) \/ negative
        IN  /\ (inv.exc = "ValueError") <=> rejected
            /\ ~rejected => inv.exc = "none"
            /\ Le(arg2, Zero) => inv.exc # "none"

C4_Witness ==
    /\ ejercicio = 7 /\ entry = "Eh"
    /\ Lt(arg1, Zero) /\ Gt(arg2, Zero)
    /\ inv.exc = "ValueError"

\* C5: Ejercicio 8's ae2Eh raises the invalid-orbit error exactly when e < 0,
\* or e < 1 with a <= 0, or e > 1 with a >= 0; for e = 1 it returns
\* epsilon = 0 and h = sqrt(mu*a), which is nan when a < 0.
C5_GeneralForwardDomain ==
    (ejercicio = 8 /\ entry = "ae" /\ fwd # Pending) =>
        LET rejected == \/ Lt(arg2, Zero)
                        \/ (Lt(arg2, One) /\ Le(arg1, Zero))
                        \/ (Gt(arg2, One) /\ Ge(arg1, Zero))
        IN  /\ (fwd.exc = "ValueError") <=> rejected
            /\ ~rejected => fwd.exc = "none"
            /\ Eq(arg2, One) =>
                  /\ fwd.exc = "none"
                  /\ Eq(fwd.fst, Zero)
                  /\ Ge(arg1, Zero) =>
                        Ge(fwd.snd, Zero) /\ Eq(Pow2(fwd.snd), Mul(mu, arg1))
                  /\ Lt(arg1, Zero) => fwd.snd = NaN

C5_Witness ==
    /\ ejercicio = 8 /\ entry = "ae"
    /\ Gt(arg1, Zero) /\ Eq(arg2, One)
    /\ fwd.exc = "none"
    /\ Gt(fwd.snd, Zero)

\* C6: when Ejercicio 8's Eh2ae returns (a, e), epsilon < 0 gives a > 0 and
\* 0 <= e < 1, epsilon = 0 gives e = 1 and a*mu = h^2, and epsilon > 0 gives
\* a < 0 and e > 1.
C6_OrbitClassFollowsEnergy ==
    (ejercicio = 8 /\ entry = "Eh" /\ inv.exc = "none") =>
        /\ Lt(arg1, Zero) =>
              Gt(inv.fst, Zero) /\ Le(Zero, inv.snd) /\ Lt(inv.snd, One)
        /\ Eq(arg1, Zero) =>
              Eq(inv.snd, One) /\ Eq(Mul(inv.fst, mu), Pow2(arg2))
        /\ Gt(arg1, Zero) =>
              Lt(inv.fst, Zero) /\ Gt(inv.snd, One)

C6_Witness ==
    /\ ejercicio = 8 /\ entry = "Eh"
    /\ Gt(arg1, Zero)
    /\ inv.exc = "none"
    /\ Gt(inv.snd, One)

\* C7: in the menu an error raised while option 1 or 2 is handled is caught
\* and reported, no plot is produced and the prompt returns; the loop ends
\* only when option 3 is selected.
C7_MenuSurvivesErrors ==
    [][ /\ opcion' \in {"1", "2"} =>
              /\ pc' = "prompt"
              /\ \/ (plots' = plots + 1 /\ console' = "")
                 \/ (plots' = plots /\ fig' = fig /\ console' = "Error")
        /\ pc' # "prompt" => opcion' = "3" ]_vars

\* C8: for an open conic (e >= 1) that ae2Eh accepts, every sample plotted
\* after the masking step is nan or a radius with 0 <= r <= 1e8.
C8_PlottedRadiiPhysical ==
    (ejercicio = 8 /\ entry = "ae" /\ fig.exc = "none" /\ Ge(arg2, One)) =>
        \A i \in DOMAIN fig.r :
            \/ QIsNaN(fig.r[i])
            \/ (~QNegative(fig.r[i]) /\ ~QGt(fig.r[i], RMax))

\* C9: whenever Ejercicio 8's Eh2ae returns (a, e), the ae2Eh call that
\* plot_orbit makes on that pair raises nothing.
C9_RecoveredElementsAccepted ==
    (ejercicio = 8 /\ entry = "Eh" /\ fig # NoFig) => fig.exc = "none"

C9_Witness ==
    /\ ejercicio = 8 /\ entry = "Eh"
    /\ Lt(arg1, Zero)
    /\ inv.exc = "none"
    /\ fig.exc = "none"
    /\ fig.tipo = "Eliptica"

\* C10: for every input Ejercicio 8's ae2Eh accepts, the h it returns is a
\* real number > 0 and Eh2ae applied to the result gives back (a, e).
C10_GeneralRoundTrip ==
    (ejercicio = 8 /\ entry = "ae" /\ fwd.exc = "none") =>
        /\ fwd.snd.k = "fin"
        /\ Gt(fwd.snd, Zero)
        /\ back # Pending =>
              /\ back.exc = "none"
              /\ Eq(back.fst, arg1)
              /\ Eq(back.snd, arg2)

====
